---- MODULE Spec2Model ----
(***************************************************************************)
(* gitlab-protector: one run of the command line tool, from argument       *)
(* parsing to the exit code: load the rules file, authenticate, collect    *)
(* the projects of the namespace and of its subgroups, then either report  *)
(* (dry run) or create the tag and branch protections of every project.    *)
(***************************************************************************)
EXTENDS Integers, Sequences, FiniteSets, TLC

(***************************************************************************)
(* Bounds of the model.                                                    *)
(***************************************************************************)
\* longest answer of subgroups.list(all=True, recursive=True)
MaxList == 2
\* longest "tags" list and longest "branches" list of a rules file
MaxRules == 2

(***************************************************************************)
(* Exit codes.                                                             *)
(***************************************************************************)
EXIT_SUCCESS == 0
EXIT_EXECUTION_ERROR == 1
EXIT_MISSING_ARGUMENTS == 2
EXIT_CONFIG_NOT_FOUND == 10
EXIT_CONFIG_PARSE_ERROR == 11
EXIT_GITLAB_ERROR == 20
EXIT_GITLAB_CREATE_TAG_ERROR == 21
EXIT_GITLAB_CREATE_BRANCH_ERROR == 22
EXIT_AUTH_ERROR == 30

\* the response code apply_tag_protection takes for "already protected"
TAG_ALREADY_EXISTS == 422
\* the response code apply_branch_protection takes for "already protected"
BRANCH_ALREADY_EXISTS == 409

(***************************************************************************)
(* Python values.  A YAML scalar is a tagged value, so that a string and a *)
(* number stay different values; Absent stands for a key a mapping lacks.  *)
(***************************************************************************)
Str(s) == [t |-> "str", v |-> s]
Int7 == [t |-> "int", v |-> "7"]
Absent == [t |-> "absent", v |-> ""]

\* isinstance(value, str)
IsStr(value) == value.t = "str"

\* the names of class AccessLevel
AccessLevel ==
    {"no_access", "minimal_access", "guest", "reporter",
     "developer", "maintainer", "owner", "admin"}

\* ACCESS_LEVELS: name -> gitlab.const.AccessLevel
ACCESS_LEVELS ==
    [l \in AccessLevel |->
        CASE l = "no_access" -> 0
          [] l = "minimal_access" -> 5
          [] l = "guest" -> 10
          [] l = "reporter" -> 20
          [] l = "developer" -> 30
          [] l = "maintainer" -> 40
          [] l = "owner" -> 50
          [] l = "admin" -> 60]

\* value in ACCESS_LEVELS (a dict lookup by key: only a string can be a key)
InAccessLevels(value) == IsStr(value) /\ value.v \in DOMAIN ACCESS_LEVELS

(***************************************************************************)
(* The rules file.  An entry of a rule list is a mapping (isMap) with the  *)
(* three keys present or Absent, or something that is no mapping.          *)
(***************************************************************************)
Rule(n, m, p) ==
    [isMap |-> TRUE, name |-> n, merge_access_level |-> m, push_access_level |-> p]

NotAMapping ==
    [isMap |-> FALSE, name |-> Absent, merge_access_level |-> Absent,
     push_access_level |-> Absent]

\* entries validation accepts; the second has a name that is no string
GoodEntries ==
    {Rule(Str("v*"), Str("maintainer"), Str("developer")),
     Rule(Int7, Str("developer"), Str("maintainer"))}

\* entries validation rejects, one per check of _validate_protection_rules
BadEntries ==
    {NotAMapping,
     Rule(Absent, Str("maintainer"), Str("developer")),
     Rule(Str("v*"), Absent, Str("developer")),
     Rule(Str("v*"), Str("maintainer"), Absent),
     Rule(Str("v*"), Str("bogus"), Str("developer")),
     Rule(Str("v*"), Str("maintainer"), Int7)}

SeqsUpTo(S, n) == UNION {[1..k -> S] : k \in 0..n}

\* the value of a top-level key: the key may be missing
RuleLists(S) ==
    {[present |-> FALSE, items |-> <<>>]} \cup
    {[present |-> TRUE, items |-> s] : s \in SeqsUpTo(S, MaxRules)}

\* what yaml.safe_load returns: a mapping, or anything else (isMap = FALSE)
NotADict == [isMap |-> FALSE,
             tags |-> [present |-> FALSE, items |-> <<>>],
             branches |-> [present |-> FALSE, items |-> <<>>]]

DocumentsOver(S) ==
    {NotADict} \cup
    {[isMap |-> TRUE, tags |-> t, branches |-> b] :
        t \in RuleLists(S), b \in RuleLists(S)}

\* ProtectionConfig, and None while nothing is loaded
ProtectionConfig(tags, branches) ==
    [loaded |-> TRUE, tags |-> tags, branches |-> branches]

NoProtectionConfig == [loaded |-> FALSE, tags |-> <<>>, branches |-> <<>>]

\* a line of the Logger: the level, the message, and the rule it names
Msg(level, text) == [level |-> level, text |-> text, rule_type |-> "", idx |-> 0]

RuleMsg(text, rule_type, idx) ==
    [level |-> "error", text |-> text, rule_type |-> rule_type, idx |-> idx]

\* a validation that does not look up push_access_level in ACCESS_LEVELS
RuleError_NoPushCheck(rule) ==
    IF ~rule.isMap THEN "must be a dictionary"
    ELSE IF rule.name = Absent THEN "missing required field 'name'"
    ELSE IF rule.merge_access_level = Absent
        THEN "missing required field 'merge_access_level'"
    ELSE IF rule.push_access_level = Absent
        THEN "missing required field 'push_access_level'"
    ELSE IF ~InAccessLevels(rule.merge_access_level)
        THEN "invalid merge_access_level"
    ELSE ""

\* _validate_protection_rules, one entry: the ValueError it raises, "" for none
RuleError(rule) ==
    IF ~rule.isMap THEN "must be a dictionary"
    ELSE IF rule.name = Absent THEN "missing required field 'name'"
    ELSE IF rule.merge_access_level = Absent
        THEN "missing required field 'merge_access_level'"
    ELSE IF rule.push_access_level = Absent
        THEN "missing required field 'push_access_level'"
    ELSE IF ~InAccessLevels(rule.merge_access_level)
        THEN "invalid merge_access_level"
    ELSE IF ~InAccessLevels(rule.push_access_level)
        THEN "invalid push_access_level"
    ELSE ""

\* _validate_protection_rules: the index (from 1) of the entry it raises at,
\* 0 when it returns
ValidateProtectionRules(rules) ==
    LET bad == {i \in 1..Len(rules) : RuleError(rules[i]) # ""}
    IN  IF bad = {} THEN 0
        ELSE CHOOSE i \in bad : \A j \in bad : i <= j

\* data.get(key, [])
GetList(list) == IF list.present THEN list.items ELSE <<>>

\* load_and_validate_config: the ProtectionConfig it returns, or the exit code
\* of its sys.exit, with the line it logs.  file is what the file system and
\* the YAML parser make of the path.
LoadAndValidateConfig(file, data) ==
    IF file = "not_a_file"
    THEN [exit |-> <<EXIT_CONFIG_NOT_FOUND>>, config |-> NoProtectionConfig,
          logged |-> {Msg("error", "YAML configuration file not found")}]
    ELSE IF file = "yaml_error"
    THEN [exit |-> <<EXIT_CONFIG_PARSE_ERROR>>, config |-> NoProtectionConfig,
          logged |-> {Msg("error", "error parsing YAML configuration")}]
    ELSE IF ~data.isMap
    THEN [exit |-> <<EXIT_CONFIG_PARSE_ERROR>>, config |-> NoProtectionConfig,
          logged |-> {Msg("error", "Configuration must be a dictionary")}]
    ELSE
        LET tags == GetList(data.tags)
            branches == GetList(data.branches)
            t == ValidateProtectionRules(tags)
            b == ValidateProtectionRules(branches)
        IN  IF t # 0
            THEN [exit |-> <<EXIT_CONFIG_PARSE_ERROR>>,
                  config |-> NoProtectionConfig,
                  logged |-> {RuleMsg(RuleError(tags[t]), "tags", t)}]
            ELSE IF b # 0
            THEN [exit |-> <<EXIT_CONFIG_PARSE_ERROR>>,
                  config |-> NoProtectionConfig,
                  logged |-> {RuleMsg(RuleError(branches[b]), "branches", b)}]
            ELSE [exit |-> <<>>, config |-> ProtectionConfig(tags, branches),
                  logged |-> {}]

(***************************************************************************)
(* The command line and the environment.                                   *)
(***************************************************************************)
\* an optional string: args.token, os.getenv("GITLAB_TOKEN"), args.exclude
None == [given |-> FALSE, value |-> <<>>]
Some(chars) == [given |-> TRUE, value |-> chars]

\* a truth value that takes the empty string for a value
Truthy_NotNone(opt) == opt.given

\* Python's truth value of an optional string
Truthy(opt) == opt.given /\ opt.value # <<>>

\* args.token or os.getenv("GITLAB_TOKEN")
Or(a, b) == IF Truthy(a) THEN a ELSE b

Tokens == {None, Some(<<>>), Some(<<"t">>)}

Excludes == {None, Some(<<>>), Some(<<"a">>), Some(<<"c">>), Some(<<"r">>)}

\* class Config (url and namespace are fixed: one instance, one root group)
Config(token, dry_run, exclude, stop_on_error) ==
    [token |-> token, dry_run |-> dry_run, exclude |-> exclude,
     stop_on_error |-> stop_on_error]

\* no Config yet
NoConfig == Config(None, FALSE, None, FALSE)

Argv(namespace, config_file, token, dry_run, exclude, stop_on_error) ==
    [namespace |-> namespace, config_file |-> config_file, token |-> token,
     dry_run |-> dry_run, exclude |-> exclude, stop_on_error |-> stop_on_error]

\* the command lines: -n and -c given or not, -t, -d, -e, -s
CommandLines ==
    {Argv(n, c, t, d, e, s) :
        n \in BOOLEAN, c \in BOOLEAN, t \in Tokens, d \in BOOLEAN,
        e \in Excludes, s \in BOOLEAN}

\* parse_arguments: the Config it returns, or the exit code it ends with.
\* parser.parse_args() ends the process with 2 when a required argument is
\* missing.
ParseArgumentsResult(args, env_token) ==
    IF ~args.namespace \/ ~args.config_file
    THEN [exit |-> <<EXIT_MISSING_ARGUMENTS>>, config |-> NoConfig,
          logged |-> {Msg("error", "the following arguments are required")}]
    ELSE
        LET token == Or(args.token, env_token)
        IN  IF ~Truthy(token)
            THEN [exit |-> <<EXIT_AUTH_ERROR>>, config |-> NoConfig,
                  logged |-> {Msg("error", "gitlab token not provided")}]
            ELSE [exit |-> <<>>,
                  config |-> Config(token, args.dry_run, args.exclude,
                                    args.stop_on_error),
                  logged |-> IF Truthy(args.token)
                             THEN {Msg("warn", "token provided via command line argument")}
                             ELSE {}]

(***************************************************************************)
(* The remote: one root group (the namespace) and its subgroup tree.       *)
(* Paths are sequences of characters; a subgroup's full path starts with   *)
(* its parent's.                                                           *)
(***************************************************************************)
RootGroup == [id |-> 0]

\* the subgroups: 1 is a child of the root, 2 is a child of 1
GroupIds == {1, 2}

\* full_path of a group
FullPath(g) ==
    CASE g = 0 -> <<"r">>
      [] g = 1 -> <<"r", "/", "a">>
      [] g = 2 -> <<"r", "/", "a", "/", "c">>

\* group.projects.list(all=True): the group's direct projects, by id
GroupProjects(g) ==
    CASE g = 0 -> <<1>>
      [] g = 1 -> <<2>>
      [] g = 2 -> <<3>>

\* path_with_namespace of a project
PathWithNamespace(p) ==
    CASE p = 1 -> <<"r", "/", "x">>
      [] p = 2 -> <<"r", "/", "a", "/", "y">>
      [] p = 3 -> <<"r", "/", "a", "/", "c", "/", "z">>

\* an entry of the subgroup listing: a stub with its id (or none) and path
Stub(g) == [has_id |-> TRUE, id |-> g, full_path |-> FullPath(g)]

StubWithoutId == [has_id |-> FALSE, id |-> 0, full_path |-> <<"r", "/", "n">>]

Stubs == {Stub(g) : g \in GroupIds} \cup {StubWithoutId}

\* the answers of subgroups.list(all=True, recursive=True)
Listings == SeqsUpTo(Stubs, MaxList)

\* an answer of the remote: what the call returns or raises
Response(kind, code) == [kind |-> kind, code |-> code]

Ok == Response("ok", 200)

NoResponse == Response("none", 0)

AuthResponses ==
    {Ok, Response("GitlabAuthenticationError", 401), Response("Exception", 0)}

GetResponses == {Ok, Response("GitlabGetError", 404), Response("Exception", 0)}

ListResponses == {Ok, Response("Exception", 0)}

CreateResponses ==
    {Ok, Response("GitlabAuthenticationError", 401),
     Response("GitlabCreateError", 409), Response("GitlabCreateError", 422),
     Response("Exception", 0)}

\* a remote call, as the remote sees it
Call(op, target, idx, payload) ==
    [op |-> op, target |-> target, idx |-> idx, payload |-> payload]

NoPayload == [name |-> Absent]

\* sub in path, for Python strings
Contains(sub, path) ==
    \E i \in 0..(Len(path) - Len(sub)) : SubSeq(path, i + 1, i + Len(sub)) = sub

\* an exclusion that tests only whether the option was given
IsExcluded_Given(exclude, path) ==
    IF exclude.given THEN Contains(exclude.value, path) ELSE FALSE

\* an exclusion that wants the pattern to be the whole path
IsExcluded_WholePath(exclude, path) ==
    IF Truthy(exclude) THEN exclude.value = path ELSE FALSE

\* an exclusion that wants the pattern at the end of the path
IsExcluded_Suffix(exclude, path) ==
    IF Truthy(exclude)
    THEN /\ Len(exclude.value) <= Len(path)
         /\ SubSeq(path, Len(path) - Len(exclude.value) + 1, Len(path))
                = exclude.value
    ELSE FALSE

\* _is_excluded
IsExcluded(exclude, path) ==
    IF Truthy(exclude) THEN Contains(exclude.value, path) ELSE FALSE

(***************************************************************************)
(* ProtectionManager.  Each operator gives what one application does: the  *)
(* create call it issues (called, payload), the exit code of its sys.exit  *)
(* (none: <<>>) and the lines it logs.  response is the remote's answer to *)
(* the create call.                                                        *)
(***************************************************************************)
Applied(called, payload, exit, logged) ==
    [called |-> called, payload |-> payload, exit |-> exit, logged |-> logged]

\* rule.get(key, ""): the value of the key, the empty string without it
RuleGet(value) == IF value = Absent THEN Str("") ELSE value

\* a tag handler that takes no answer for "exists already"
TagConflict_Never(response) == FALSE

\* the tag handler taking the branch handler's code for "exists already"
TagConflict_BranchCode(response) == response.code = BRANCH_ALREADY_EXISTS

\* apply_tag_protection: 'e.response_code != 422' is false, the protection
\* exists already
TagConflict(response) == response.code = TAG_ALREADY_EXISTS

\* the tag handler exiting with the branch handler's code
TagErrorExit_BranchCode(stop_on_error) ==
    IF stop_on_error THEN <<EXIT_GITLAB_CREATE_BRANCH_ERROR>> ELSE <<>>

\* the tag handler exiting whatever stop_on_error says
TagErrorExit_Always(stop_on_error) == <<EXIT_GITLAB_CREATE_TAG_ERROR>>

\* apply_tag_protection: 'if stop_on_error: sys.exit(...)'
TagErrorExit(stop_on_error) ==
    IF stop_on_error THEN <<EXIT_GITLAB_CREATE_TAG_ERROR>> ELSE <<>>

\* the 'except' clauses of apply_tag_protection
TagCreateOutcome(response, stop_on_error) ==
    IF response.kind = "ok" THEN [exit |-> <<>>, logged |-> {}]
    ELSE IF response.kind = "GitlabAuthenticationError"
    THEN [exit |-> <<EXIT_AUTH_ERROR>>,
          logged |-> {Msg("error", "authentication error")}]
    ELSE IF response.kind = "GitlabCreateError"
    THEN IF ~TagConflict(response)
         THEN [exit |-> TagErrorExit(stop_on_error),
               logged |-> {Msg("error", "tag protection error")}]
         ELSE [exit |-> <<>>, logged |-> {}]
    ELSE [exit |-> TagErrorExit(stop_on_error),
          logged |-> {Msg("error", "unexpected error protecting tag")}]

\* an apply_tag_protection that resolves the merge level for the payload
ApplyTagProtection_MergeLevel(rule, response, stop_on_error) ==
    LET name == RuleGet(rule.name)
        push_level == RuleGet(rule.push_access_level)
        merge_level == RuleGet(rule.merge_access_level)
    IN  IF ~IsStr(name) \/ ~IsStr(push_level)
        THEN Applied(FALSE, NoPayload, <<>>,
                     {Msg("error", "invalid rule format for tag protection")})
        ELSE IF ~InAccessLevels(merge_level)
        THEN Applied(FALSE, NoPayload, <<>>,
                     {Msg("error", "invalid tag push_access_level value")})
        ELSE
            LET protection ==
                    [name |-> name,
                     create_access_level |-> ACCESS_LEVELS[merge_level.v],
                     allowed_to_create |-> <<>>]
                outcome == TagCreateOutcome(response, stop_on_error)
            IN  Applied(TRUE, protection, outcome.exit, outcome.logged)

\* apply_tag_protection
ApplyTagProtection(rule, response, stop_on_error) ==
    LET name == RuleGet(rule.name)
        push_level == RuleGet(rule.push_access_level)
        merge_level == RuleGet(rule.merge_access_level)
    IN  IF ~IsStr(name) \/ ~IsStr(push_level)
        THEN Applied(FALSE, NoPayload, <<>>,
                     {Msg("error", "invalid rule format for tag protection")})
        ELSE IF ~InAccessLevels(push_level)
        THEN Applied(FALSE, NoPayload, <<>>,
                     {Msg("error", "invalid tag push_access_level value")})
        ELSE
            LET warned ==
                    IF /\ merge_level # Str("")
                       /\ ~InAccessLevels(merge_level)
                    THEN {Msg("warn", "merge_access_level specified for tag protection but ignored")}
                    ELSE {}
                protection ==
                    [name |-> name,
                     create_access_level |-> ACCESS_LEVELS[push_level.v],
                     allowed_to_create |-> <<>>]
                outcome == TagCreateOutcome(response, stop_on_error)
            IN  Applied(TRUE, protection, outcome.exit, warned \cup outcome.logged)

\* a branch handler that takes both codes for "exists already"
BranchConflict_Either(response) ==
    response.code = BRANCH_ALREADY_EXISTS \/ response.code = TAG_ALREADY_EXISTS

\* the branch handler taking the tag handler's code for "exists already"
BranchConflict_TagCode(response) == response.code = TAG_ALREADY_EXISTS

\* apply_branch_protection: 'e.response_code != 409' is false, the protection
\* exists already
BranchConflict(response) == response.code = BRANCH_ALREADY_EXISTS

\* apply_branch_protection: 'if stop_on_error: sys.exit(...)'
BranchErrorExit(stop_on_error) ==
    IF stop_on_error THEN <<EXIT_GITLAB_CREATE_BRANCH_ERROR>> ELSE <<>>

\* a branch handler without its 'except GitlabAuthenticationError' clause
BranchCreateOutcome_NoAuthClause(response, stop_on_error) ==
    IF response.kind = "ok" THEN [exit |-> <<>>, logged |-> {}]
    ELSE IF response.kind = "GitlabCreateError"
    THEN IF response.code # BRANCH_ALREADY_EXISTS
         THEN [exit |-> IF stop_on_error
                        THEN <<EXIT_GITLAB_CREATE_BRANCH_ERROR>> ELSE <<>>,
               logged |-> {Msg("error", "branch protection error")}]
         ELSE [exit |-> <<>>, logged |-> {}]
    ELSE [exit |-> IF stop_on_error
                   THEN <<EXIT_GITLAB_CREATE_BRANCH_ERROR>> ELSE <<>>,
          logged |-> {Msg("error", "unexpected error protecting branch")}]

\* the 'except' clauses of apply_branch_protection
BranchCreateOutcome(response, stop_on_error) ==
    IF response.kind = "ok" THEN [exit |-> <<>>, logged |-> {}]
    ELSE IF response.kind = "GitlabAuthenticationError"
    THEN [exit |-> <<EXIT_AUTH_ERROR>>,
          logged |-> {Msg("error", "authentication error")}]
    ELSE IF response.kind = "GitlabCreateError"
    THEN IF ~BranchConflict(response)
         THEN [exit |-> BranchErrorExit(stop_on_error),
               logged |-> {Msg("error", "branch protection error")}]
         ELSE [exit |-> <<>>, logged |-> {}]
    ELSE [exit |-> BranchErrorExit(stop_on_error),
          logged |-> {Msg("error", "unexpected error protecting branch")}]

\* a branch handler that takes levels it cannot resolve for an error of the
\* create call
ApplyBranchProtection_ExitsOnInvalid(rule, response, stop_on_error) ==
    LET name == RuleGet(rule.name)
        merge_level == RuleGet(rule.merge_access_level)
        push_level == RuleGet(rule.push_access_level)
    IN  IF ~IsStr(name) \/ ~IsStr(merge_level) \/ ~IsStr(push_level)
        THEN Applied(FALSE, NoPayload, <<>>,
                     {Msg("error", "invalid rule format for branch protection")})
        ELSE IF ~InAccessLevels(merge_level) \/ ~InAccessLevels(push_level)
        THEN Applied(FALSE, NoPayload, BranchErrorExit(stop_on_error),
                     {Msg("error", "invalid access levels")})
        ELSE
            LET protection ==
                    [name |-> name,
                     merge_access_level |-> ACCESS_LEVELS[merge_level.v],
                     push_access_level |-> ACCESS_LEVELS[push_level.v],
                     allow_force_push |-> FALSE,
                     code_owner_approval_required |-> FALSE]
                outcome == BranchCreateOutcome(response, stop_on_error)
            IN  Applied(TRUE, protection, outcome.exit, outcome.logged)

\* apply_branch_protection
ApplyBranchProtection(rule, response, stop_on_error) ==
    LET name == RuleGet(rule.name)
        merge_level == RuleGet(rule.merge_access_level)
        push_level == RuleGet(rule.push_access_level)
    IN  IF ~IsStr(name) \/ ~IsStr(merge_level) \/ ~IsStr(push_level)
        THEN Applied(FALSE, NoPayload, <<>>,
                     {Msg("error", "invalid rule format for branch protection")})
        ELSE IF ~InAccessLevels(merge_level) \/ ~InAccessLevels(push_level)
        THEN Applied(FALSE, NoPayload, <<>>,
                     {Msg("error", "invalid access levels")})
        ELSE
            LET protection ==
                    [name |-> name,
                     merge_access_level |-> ACCESS_LEVELS[merge_level.v],
                     push_access_level |-> ACCESS_LEVELS[push_level.v],
                     allow_force_push |-> FALSE,
                     code_owner_approval_required |-> FALSE]
                outcome == BranchCreateOutcome(response, stop_on_error)
            IN  Applied(TRUE, protection, outcome.exit, outcome.logged)

(***************************************************************************)
(* The state of one run.                                                   *)
(***************************************************************************)
VARIABLES
    pc,                 \* where the run is: the step main() and run() are at
    argv,               \* the command line and GITLAB_TOKEN, when given at start
    config,             \* GitLabProtector.config
    file,               \* what load_and_validate_config found at config_file
    document,           \* the content of the rules file, when given at start
    protection_config,  \* GitLabProtector.protection_config
    gitlab_api,         \* GitLabProtector.gitlab_api is not None
    projects,           \* GitLabProtector.projects
    listing,            \* the answer of subgroups.list (_process_subgroups)
    to_visit,           \* _process_subgroups: to_visit
    visited,            \* _process_subgroups: visited
    project_idx,        \* _apply_protections: the position in projects
    rule_idx,           \* _protect_project: the position in tags or branches
    exitCode,           \* the exit code of the process: <<>> while it runs
    calls,              \* the remote calls issued so far, in order
    response,           \* the remote's answer to the last of calls
    logged,             \* the warnings and errors of the last step
    first_error,        \* the position in calls of the first create call that
                        \* failed with an error that is no authentication
                        \* error and not the tolerated conflict; 0 for none
    stored,             \* the protections held by a remote that stores them;
                        \* a remote that answers freely holds none
    runs                \* the runs that ended before this one: the exit code
                        \* and the protections each of them left

vars ==
    <<pc, argv, config, file, document, protection_config, gitlab_api,
      projects, listing, to_visit, visited, project_idx, rule_idx, exitCode,
      calls, response, logged, first_error, stored, runs>>

NoArgv ==
    [set |-> FALSE, args |-> Argv(FALSE, FALSE, None, FALSE, None, FALSE),
     env_token |-> None]

NoDocument == [set |-> FALSE, data |-> NotADict]

\* the rules files of a whole run: the accepted entries and one rejected
RunDocuments ==
    DocumentsOver(GoodEntries \cup {Rule(Str("v*"), Str("maintainer"), Str("bogus"))})

\* every rules file
Documents == DocumentsOver(GoodEntries \cup BadEntries)

FileStates == {"not_a_file", "yaml_error", "parsed"}

\* main(): the process starts
Init ==
    /\ pc = "parse_arguments"
    /\ argv = NoArgv
    /\ config = NoConfig
    /\ file = "unread"
    /\ document = NoDocument
    /\ protection_config = NoProtectionConfig
    /\ gitlab_api = FALSE
    /\ projects = <<>>
    /\ listing = <<>>
    /\ to_visit = <<>>
    /\ visited = {}
    /\ project_idx = 0
    /\ rule_idx = 0
    /\ exitCode = <<>>
    /\ calls = <<>>
    /\ response = NoResponse
    /\ logged = {}
    /\ first_error = 0
    /\ stored = {}
    /\ runs = <<>>

\* sys.exit(code), which run() turns into its return value
Exit(code, lines) ==
    /\ pc' = "done"
    /\ exitCode' = <<code>>
    /\ logged' = lines

\* a remote call and its answer
Issue(call, answer) ==
    /\ calls' = Append(calls, call)
    /\ response' = answer

(***************************************************************************)
(* main(): parse_arguments.                                                *)
(***************************************************************************)
ParseStep(args, env_token) ==
    LET r == ParseArgumentsResult(args, env_token)
    IN  /\ config' = r.config
        /\ logged' = r.logged
        /\ exitCode' = r.exit
        /\ pc' = IF r.exit = <<>> THEN "load_protection_config" ELSE "done"
        /\ UNCHANGED <<argv, file, document, protection_config, gitlab_api,
                       projects, listing, to_visit, visited, project_idx,
                       rule_idx, calls, response, first_error, stored, runs>>

ParseArguments ==
    /\ pc = "parse_arguments"
    /\ ~argv.set
    /\ \E args \in CommandLines, env_token \in Tokens : ParseStep(args, env_token)

(***************************************************************************)
(* run(): _load_protection_config.                                         *)
(***************************************************************************)
\* a run() that goes on to the remote whatever loading did
LoadStep_GoesOn(f, data) ==
    LET r == LoadAndValidateConfig(f, data)
    IN  /\ file' = f
        /\ protection_config' = r.config
        /\ logged' = r.logged
        /\ exitCode' = <<>>
        /\ pc' = "initialize_gitlab_api"
        /\ UNCHANGED <<argv, config, document, gitlab_api, projects, listing,
                       to_visit, visited, project_idx, rule_idx, calls,
                       response, first_error, stored, runs>>

\* run(): self.protection_config = ConfigValidator.load_and_validate_config(...)
LoadStep(f, data) ==
    LET r == LoadAndValidateConfig(f, data)
    IN  /\ file' = f
        /\ protection_config' = r.config
        /\ logged' = r.logged
        /\ exitCode' = r.exit
        /\ pc' = IF r.exit = <<>> THEN "initialize_gitlab_api" ELSE "done"
        /\ UNCHANGED <<argv, config, document, gitlab_api, projects, listing,
                       to_visit, visited, project_idx, rule_idx, calls,
                       response, first_error, stored, runs>>

LoadProtectionConfig ==
    /\ pc = "load_protection_config"
    /\ ~document.set
    /\ \E f \in FileStates, data \in RunDocuments : LoadStep(f, data)

(***************************************************************************)
(* run(): _initialize_gitlab_api.                                          *)
(***************************************************************************)
\* an _initialize_gitlab_api that logs what is no authentication error and
\* returns
InitializeGitlabApi_Swallows ==
    /\ pc = "initialize_gitlab_api"
    /\ \E answer \in AuthResponses :
        /\ Issue(Call("auth", 0, 0, NoPayload), answer)
        /\ IF answer.kind = "ok"
           THEN /\ gitlab_api' = TRUE
                /\ pc' = "collect_projects"
                /\ logged' = {}
                /\ UNCHANGED exitCode
           ELSE IF answer.kind = "GitlabAuthenticationError"
           THEN /\ Exit(EXIT_AUTH_ERROR, {Msg("error", "authentication error")})
                /\ UNCHANGED gitlab_api
           ELSE /\ pc' = "collect_projects"
                /\ logged' = {Msg("error", "failed to initialize gitlab API")}
                /\ UNCHANGED <<gitlab_api, exitCode>>
    /\ UNCHANGED <<argv, config, file, document, protection_config, projects,
                   listing, to_visit, visited, project_idx, rule_idx,
                   first_error, stored, runs>>

\* an _initialize_gitlab_api without its 'except GitlabAuthenticationError'
InitializeGitlabApi_NoAuthClause ==
    /\ pc = "initialize_gitlab_api"
    /\ \E answer \in AuthResponses :
        /\ Issue(Call("auth", 0, 0, NoPayload), answer)
        /\ IF answer.kind = "ok"
           THEN /\ gitlab_api' = TRUE
                /\ pc' = "collect_projects"
                /\ logged' = {}
                /\ UNCHANGED exitCode
           ELSE /\ Exit(EXIT_GITLAB_ERROR,
                        {Msg("error", "failed to initialize gitlab API")})
                /\ UNCHANGED gitlab_api
    /\ UNCHANGED <<argv, config, file, document, protection_config, projects,
                   listing, to_visit, visited, project_idx, rule_idx,
                   first_error, stored, runs>>

\* _initialize_gitlab_api: gitlab.Gitlab(...) and self.gitlab_api.auth()
InitializeGitlabApi ==
    /\ pc = "initialize_gitlab_api"
    /\ \E answer \in AuthResponses :
        /\ Issue(Call("auth", 0, 0, NoPayload), answer)
        /\ IF answer.kind = "ok"
           THEN /\ gitlab_api' = TRUE
                /\ pc' = "collect_projects"
                /\ logged' = {}
                /\ UNCHANGED exitCode
           ELSE IF answer.kind = "GitlabAuthenticationError"
           THEN /\ Exit(EXIT_AUTH_ERROR, {Msg("error", "authentication error")})
                /\ UNCHANGED gitlab_api
           ELSE /\ Exit(EXIT_GITLAB_ERROR,
                        {Msg("error", "failed to initialize gitlab API")})
                /\ UNCHANGED gitlab_api
    /\ UNCHANGED <<argv, config, file, document, protection_config, projects,
                   listing, to_visit, visited, project_idx, rule_idx,
                   first_error, stored, runs>>

(***************************************************************************)
(* run(): _collect_projects, one step for each remote call.                *)
(***************************************************************************)
\* self.gitlab_api.groups.get(namespace, lazy=False, include_subgroups=True)
GetRootGroup ==
    /\ pc = "collect_projects"
    /\ IF ~gitlab_api
       THEN /\ Exit(EXIT_GITLAB_ERROR, {Msg("error", "gitlab API not initialized")})
            /\ UNCHANGED <<calls, response>>
       ELSE \E answer \in GetResponses :
            /\ Issue(Call("groups.get", RootGroup.id, 0, NoPayload), answer)
            /\ IF answer.kind = "ok"
               THEN /\ pc' = "add_root_projects"
                    /\ logged' = {}
                    /\ UNCHANGED exitCode
               ELSE IF answer.kind = "GitlabGetError"
               THEN Exit(EXIT_GITLAB_ERROR,
                         {Msg("error", "failed to get namespace")})
               ELSE Exit(EXIT_GITLAB_ERROR,
                         {Msg("error", "unexpected error while collecting projects")})
    /\ UNCHANGED <<argv, config, file, document, protection_config, gitlab_api,
                   projects, listing, to_visit, visited, project_idx, rule_idx,
                   first_error, stored, runs>>

\* a collection that logs a failed listing of the root's projects and goes on
AddRootProjects_Swallows ==
    /\ pc = "add_root_projects"
    /\ \E answer \in ListResponses :
        /\ Issue(Call("projects.list", RootGroup.id, 0, NoPayload), answer)
        /\ pc' = "list_subgroups"
        /\ UNCHANGED exitCode
        /\ IF answer.kind = "ok"
           THEN /\ projects' = projects \o GroupProjects(RootGroup.id)
                /\ logged' = {}
           ELSE /\ logged' = {Msg("error", "error getting projects from group")}
                /\ UNCHANGED projects
    /\ UNCHANGED <<argv, config, file, document, protection_config, gitlab_api,
                   listing, to_visit, visited, project_idx, rule_idx,
                   first_error, stored, runs>>

\* a collection that applies the exclude pattern to the root group too
AddRootProjects_Excludes ==
    /\ pc = "add_root_projects"
    /\ IF IsExcluded(config.exclude, FullPath(RootGroup.id))
       THEN /\ pc' = "list_subgroups"
            /\ logged' = {Msg("warn", "excluding")}
            /\ UNCHANGED <<projects, calls, response, exitCode>>
       ELSE \E answer \in ListResponses :
            /\ Issue(Call("projects.list", RootGroup.id, 0, NoPayload), answer)
            /\ IF answer.kind = "ok"
               THEN /\ projects' = projects \o GroupProjects(RootGroup.id)
                    /\ pc' = "list_subgroups"
                    /\ logged' = {}
                    /\ UNCHANGED exitCode
               ELSE /\ Exit(EXIT_GITLAB_ERROR,
                            {Msg("error", "error getting projects from group"),
                             Msg("error", "unexpected error while collecting projects")})
                    /\ UNCHANGED projects
    /\ UNCHANGED <<argv, config, file, document, protection_config, gitlab_api,
                   listing, to_visit, visited, project_idx, rule_idx,
                   first_error, stored, runs>>

\* _add_projects_from_group(root_group)
AddRootProjects ==
    /\ pc = "add_root_projects"
    /\ \E answer \in ListResponses :
        /\ Issue(Call("projects.list", RootGroup.id, 0, NoPayload), answer)
        /\ IF answer.kind = "ok"
           THEN /\ projects' = projects \o GroupProjects(RootGroup.id)
                /\ pc' = "list_subgroups"
                /\ logged' = {}
                /\ UNCHANGED exitCode
           ELSE /\ Exit(EXIT_GITLAB_ERROR,
                        {Msg("error", "error getting projects from group"),
                         Msg("error", "unexpected error while collecting projects")})
                /\ UNCHANGED projects
    /\ UNCHANGED <<argv, config, file, document, protection_config, gitlab_api,
                   listing, to_visit, visited, project_idx, rule_idx,
                   first_error, stored, runs>>

\* _process_subgroups, before its loop: to_visit.extend(subgroups.list(...))
ListSubgroups ==
    /\ pc = "list_subgroups"
    /\ \/ \* the group has no subgroups manager: nothing to visit
          /\ to_visit' = <<>>
          /\ listing' = <<>>
          /\ visited' = {}
          /\ pc' = "process_subgroups"
          /\ logged' = {}
          /\ UNCHANGED <<calls, response, exitCode>>
       \/ \E answer \in ListResponses :
            /\ Issue(Call("subgroups.list", RootGroup.id, 0, NoPayload), answer)
            /\ IF answer.kind = "ok"
               THEN /\ \E l \in Listings :
                        /\ to_visit' = l
                        /\ listing' = l
                    /\ visited' = {}
                    /\ pc' = "process_subgroups"
                    /\ logged' = {}
                    /\ UNCHANGED exitCode
               ELSE /\ Exit(EXIT_GITLAB_ERROR,
                            {Msg("error", "error processing subgroups")})
                    /\ UNCHANGED <<to_visit, listing, visited>>
    /\ UNCHANGED <<argv, config, file, document, protection_config, gitlab_api,
                   projects, project_idx, rule_idx, first_error, stored, runs>>

\* a loop that does not look at visited
SkipSubgroup_NoVisited(subgroup, seen) == ~subgroup.has_id

\* a loop that skips no entry
SkipSubgroup_Never(subgroup, seen) == FALSE

\* _process_subgroups: 'if subgroup_id is None or subgroup_id in visited'
SkipSubgroup(subgroup, seen) == ~subgroup.has_id \/ subgroup.id \in seen

\* a loop that puts the projects of a subgroup before those collected so far
ProcessSubgroup_Prepends ==
    /\ pc = "process_subgroups"
    /\ to_visit # <<>>
    /\ LET subgroup == Head(to_visit)
       IN  /\ to_visit' = Tail(to_visit)
           /\ IF SkipSubgroup(subgroup, visited)
              THEN \* continue
                   /\ logged' = {}
                   /\ UNCHANGED <<visited, projects, calls, response, pc, exitCode>>
              ELSE /\ visited' = visited \cup {subgroup.id}
                   /\ IF IsExcluded(config.exclude, subgroup.full_path)
                      THEN /\ logged' = {Msg("warn", "excluding")}
                           /\ UNCHANGED <<projects, calls, response, pc, exitCode>>
                      ELSE \E got \in ListResponses, listed \in ListResponses :
                           IF got.kind # "ok"
                           THEN \* groups.get(subgroup_id, lazy=False) raises
                                /\ Issue(Call("groups.get", subgroup.id, 0, NoPayload), got)
                                /\ Exit(EXIT_GITLAB_ERROR,
                                        {Msg("error", "error processing subgroups")})
                                /\ UNCHANGED projects
                           ELSE \* _add_projects_from_group(full_group)
                                /\ calls' = calls \o
                                      <<Call("groups.get", subgroup.id, 0, NoPayload),
                                        Call("projects.list", subgroup.id, 0, NoPayload)>>
                                /\ response' = listed
                                /\ IF listed.kind = "ok"
                                   THEN /\ projects' = GroupProjects(subgroup.id) \o projects
                                        /\ logged' = {}
                                        /\ UNCHANGED <<pc, exitCode>>
                                   ELSE /\ Exit(EXIT_GITLAB_ERROR,
                                                {Msg("error", "error getting projects from group"),
                                                 Msg("error", "error processing subgroups")})
                                        /\ UNCHANGED projects
    /\ UNCHANGED <<argv, config, file, document, protection_config, gitlab_api,
                   listing, project_idx, rule_idx, first_error, stored, runs>>


\* _process_subgroups: one turn of 'while to_visit'
ProcessSubgroup ==
    /\ pc = "process_subgroups"
    /\ to_visit # <<>>
    /\ LET subgroup == Head(to_visit)
       IN  /\ to_visit' = Tail(to_visit)
           /\ IF SkipSubgroup(subgroup, visited)
              THEN \* continue
                   /\ logged' = {}
                   /\ UNCHANGED <<visited, projects, calls, response, pc, exitCode>>
              ELSE /\ visited' = visited \cup {subgroup.id}
                   /\ IF IsExcluded(config.exclude, subgroup.full_path)
                      THEN /\ logged' = {Msg("warn", "excluding")}
                           /\ UNCHANGED <<projects, calls, response, pc, exitCode>>
                      ELSE \E got \in ListResponses, listed \in ListResponses :
                           IF got.kind # "ok"
                           THEN \* groups.get(subgroup_id, lazy=False) raises
                                /\ Issue(Call("groups.get", subgroup.id, 0, NoPayload), got)
                                /\ Exit(EXIT_GITLAB_ERROR,
                                        {Msg("error", "error processing subgroups")})
                                /\ UNCHANGED projects
                           ELSE \* _add_projects_from_group(full_group)
                                /\ calls' = calls \o
                                      <<Call("groups.get", subgroup.id, 0, NoPayload),
                                        Call("projects.list", subgroup.id, 0, NoPayload)>>
                                /\ response' = listed
                                /\ IF listed.kind = "ok"
                                   THEN /\ projects' = projects \o GroupProjects(subgroup.id)
                                        /\ logged' = {}
                                        /\ UNCHANGED <<pc, exitCode>>
                                   ELSE /\ Exit(EXIT_GITLAB_ERROR,
                                                {Msg("error", "error getting projects from group"),
                                                 Msg("error", "error processing subgroups")})
                                        /\ UNCHANGED projects
    /\ UNCHANGED <<argv, config, file, document, protection_config, gitlab_api,
                   listing, project_idx, rule_idx, first_error, stored, runs>>

\* the loop of _process_subgroups has ended: _collect_projects returns
Collected == pc = "process_subgroups" /\ to_visit = <<>>

(***************************************************************************)
(* run(): the dry-run report, or _apply_protections.                       *)
(***************************************************************************)
\* a run() that never takes the dry-run branch
RunsDry_Never(cfg) == FALSE

\* run(): 'if self.config.dry_run'
RunsDry(cfg) == cfg.dry_run

\* _display_protection_summary: one line for each rule
ProtectionSummary(pconfig) ==
    {[level |-> "info", text |-> "Tag", rule_type |-> "tags", idx |-> i] :
        i \in 1..Len(pconfig.tags)} \cup
    {[level |-> "info", text |-> "Branch", rule_type |-> "branches", idx |-> i] :
        i \in 1..Len(pconfig.branches)}

\* a dry-run branch of run() without its return: the report is followed by
\* _apply_protections
DisplayProtectionSummary_NoReturn ==
    /\ Collected
    /\ RunsDry(config)
    /\ pc' = IF Len(projects) > 0 THEN "protect_project" ELSE "accomplished"
    /\ project_idx' = IF Len(projects) > 0 THEN 1 ELSE 0
    /\ rule_idx' = 0
    /\ logged' = ProtectionSummary(protection_config)
    /\ listing' = <<>>
    /\ visited' = {}
    /\ UNCHANGED <<argv, config, file, document, protection_config, gitlab_api,
                   projects, to_visit, exitCode, calls, response, first_error, stored, runs>>

\* run(): the dry-run branch, _display_protection_summary and return
DisplayProtectionSummary ==
    /\ Collected
    /\ RunsDry(config)
    /\ Exit(EXIT_SUCCESS, ProtectionSummary(protection_config))
    /\ listing' = <<>>
    /\ visited' = {}
    /\ UNCHANGED <<argv, config, file, document, protection_config, gitlab_api,
                   projects, to_visit, project_idx, rule_idx, calls, response,
                   first_error, stored, runs>>

\* a position of the apply stage
Position(p, i, r) == [pc |-> p, project_idx |-> i, rule_idx |-> r]

\* _apply_protections: the next project of 'for project in self.projects',
\* or the end of the loop
NextProject(i) ==
    IF i < Len(projects)
    THEN Position("protect_project", i + 1, 0)
    ELSE Position("accomplished", i, 0)

\* _protect_project: the first branch rule, or the end of the project
FirstBranch(i) ==
    IF Len(protection_config.branches) > 0
    THEN Position("apply_branch_protection", i, 1)
    ELSE NextProject(i)

\* _protect_project: the first tag rule, or the branch rules
FirstTag(i) ==
    IF Len(protection_config.tags) > 0
    THEN Position("apply_tag_protection", i, 1)
    ELSE FirstBranch(i)

\* a loop over the tag rules that ends after its first turn
AfterTag_FirstOnly(i, r) == FirstBranch(i)

\* _protect_project: after tag rule r
AfterTag(i, r) ==
    IF r < Len(protection_config.tags)
    THEN Position("apply_tag_protection", i, r + 1)
    ELSE FirstBranch(i)

\* _protect_project: after branch rule r
AfterBranch(i, r) ==
    IF r < Len(protection_config.branches)
    THEN Position("apply_branch_protection", i, r + 1)
    ELSE NextProject(i)

GoTo(position) ==
    /\ pc' = position.pc
    /\ project_idx' = position.project_idx
    /\ rule_idx' = position.rule_idx

\* run(): self._apply_protections() is entered
ApplyProtections ==
    /\ Collected
    /\ ~RunsDry(config)
    /\ GoTo(NextProject(0))
    /\ logged' = {}
    /\ listing' = <<>>
    /\ visited' = {}
    /\ UNCHANGED <<argv, config, file, document, protection_config, gitlab_api,
                   projects, to_visit, exitCode, calls, response, first_error, stored, runs>>

\* a run() that tells an authentication error from the others
RunExceptException_Auth(e) ==
    IF e.kind = "GitlabAuthenticationError"
    THEN EXIT_AUTH_ERROR
    ELSE EXIT_EXECUTION_ERROR

\* a run() that returns the status the exception carries
RunExceptException_Code(e) == e.code

\* run(): 'except Exception as e: ... return EXIT_EXECUTION_ERROR'
RunExceptException(e) == EXIT_EXECUTION_ERROR

ProjectGetResponses ==
    {Ok, Response("GitlabAuthenticationError", 401), Response("GitlabGetError", 404)}

\* a _protect_project that re-fetches the first project of the list whatever
\* project it is given
ProtectProject_FetchesFirst ==
    /\ pc = "protect_project"
    /\ \E answer \in ProjectGetResponses :
        /\ Issue(Call("projects.get", projects[1], 0, NoPayload), answer)
        /\ IF answer.kind = "ok"
           THEN /\ GoTo(FirstTag(project_idx))
                /\ logged' = {}
                /\ UNCHANGED exitCode
           ELSE /\ Exit(RunExceptException(answer), {Msg("error", "unexpected error")})
                /\ UNCHANGED <<project_idx, rule_idx>>
    /\ UNCHANGED <<argv, config, file, document, protection_config, gitlab_api,
                   projects, listing, to_visit, visited, first_error, stored, runs>>

\* _protect_project, up to full_project = self.gitlab_api.projects.get(...).
\* What the call raises is caught by run(): 'except Exception'.
ProtectProject ==
    /\ pc = "protect_project"
    /\ IF ~gitlab_api \/ ~protection_config.loaded
       THEN /\ GoTo(NextProject(project_idx))
            /\ logged' = {Msg("error", "gitlab API or protection config not initialized")}
            /\ UNCHANGED <<calls, response, exitCode>>
       ELSE \E answer \in ProjectGetResponses :
            /\ Issue(Call("projects.get", projects[project_idx], 0, NoPayload), answer)
            /\ IF answer.kind = "ok"
               THEN /\ GoTo(FirstTag(project_idx))
                    /\ logged' = {}
                    /\ UNCHANGED exitCode
               ELSE /\ Exit(RunExceptException(answer), {Msg("error", "unexpected error")})
                    /\ UNCHANGED <<project_idx, rule_idx>>
    /\ UNCHANGED <<argv, config, file, document, protection_config, gitlab_api,
                   projects, listing, to_visit, visited, first_error, stored, runs>>

\* what an application leaves: its call, if it issues one, and its exit or
\* the next position
ApplyStep(op, applied, answer, failed, next) ==
    /\ IF applied.called
       THEN Issue(Call(op, projects[project_idx], rule_idx, applied.payload), answer)
       ELSE UNCHANGED <<calls, response>>
    /\ first_error' =
           IF first_error = 0 /\ applied.called /\ failed
           THEN Len(calls) + 1
           ELSE first_error
    /\ logged' = applied.logged
    /\ exitCode' = applied.exit
    /\ IF applied.exit = <<>>
       THEN GoTo(next)
       ELSE pc' = "done" /\ UNCHANGED <<project_idx, rule_idx>>
    /\ UNCHANGED <<argv, config, file, document, protection_config, gitlab_api,
                   projects, listing, to_visit, visited>>

\* an answer to a create call that is an error, but neither an authentication
\* error nor the conflict that says the protection exists already
FailedCreate(answer, conflict) ==
    \/ answer.kind = "Exception"
    \/ answer.kind = "GitlabCreateError" /\ answer.code # conflict

\* _protect_project: ProtectionManager.apply_tag_protection(full_project,
\* tag_rule, self.config.stop_on_error)
ApplyTag ==
    /\ pc = "apply_tag_protection"
    /\ \E answer \in CreateResponses :
        ApplyStep("protectedtags.create",
                  ApplyTagProtection(protection_config.tags[rule_idx], answer,
                                     config.stop_on_error),
                  answer, FailedCreate(answer, 422),
                  AfterTag(project_idx, rule_idx))
    /\ UNCHANGED <<stored, runs>>

\* _protect_project: ProtectionManager.apply_branch_protection(full_project,
\* branch_rule, self.config.stop_on_error)
ApplyBranch ==
    /\ pc = "apply_branch_protection"
    /\ \E answer \in CreateResponses :
        ApplyStep("protectedbranches.create",
                  ApplyBranchProtection(protection_config.branches[rule_idx],
                                        answer, config.stop_on_error),
                  answer, FailedCreate(answer, 409),
                  AfterBranch(project_idx, rule_idx))
    /\ UNCHANGED <<stored, runs>>

\* a run() that returns an error when a create call has failed
MissionAccomplished_CountsErrors ==
    /\ pc = "accomplished"
    /\ Exit(IF first_error # 0 THEN EXIT_EXECUTION_ERROR ELSE EXIT_SUCCESS, {})
    /\ UNCHANGED <<argv, config, file, document, protection_config, gitlab_api,
                   projects, listing, to_visit, visited, project_idx, rule_idx,
                   calls, response, first_error, stored, runs>>

\* run(): "mission accomplished", return EXIT_SUCCESS
MissionAccomplished ==
    /\ pc = "accomplished"
    /\ Exit(EXIT_SUCCESS, {})
    /\ UNCHANGED <<argv, config, file, document, protection_config, gitlab_api,
                   projects, listing, to_visit, visited, project_idx, rule_idx,
                   calls, response, first_error, stored, runs>>

\* run(), after parse_arguments
Run ==
    \/ InitializeGitlabApi
    \/ GetRootGroup
    \/ AddRootProjects
    \/ ListSubgroups
    \/ ProcessSubgroup
    \/ DisplayProtectionSummary
    \/ ApplyProtections
    \/ ProtectProject
    \/ ApplyTag
    \/ ApplyBranch
    \/ MissionAccomplished

Next ==
    \/ ParseArguments
    \/ LoadProtectionConfig
    \/ Run

Spec == Init /\ [][Next]_vars

(***************************************************************************)
(* parse_arguments alone, on a command line and an environment given at    *)
(* the start of the process.                                               *)
(***************************************************************************)
InitArgs ==
    /\ argv \in {[set |-> TRUE, args |-> a, env_token |-> e] :
                    a \in CommandLines, e \in Tokens}
    /\ pc = "parse_arguments"
    /\ config = NoConfig
    /\ file = "unread"
    /\ document = NoDocument
    /\ protection_config = NoProtectionConfig
    /\ gitlab_api = FALSE
    /\ projects = <<>>
    /\ listing = <<>>
    /\ to_visit = <<>>
    /\ visited = {}
    /\ project_idx = 0
    /\ rule_idx = 0
    /\ exitCode = <<>>
    /\ calls = <<>>
    /\ response = NoResponse
    /\ logged = {}
    /\ first_error = 0
    /\ stored = {}
    /\ runs = <<>>

ParseCommandLine ==
    /\ pc = "parse_arguments"
    /\ argv.set
    /\ ParseStep(argv.args, argv.env_token)

NextArgs == ParseCommandLine

SpecArgs == InitArgs /\ [][NextArgs]_vars

(***************************************************************************)
(* load_and_validate_config alone, on a rules file given at the start:     *)
(* GitLabProtector(config) is constructed and run() loads the file.        *)
(***************************************************************************)
InitLoad ==
    /\ document \in {[set |-> TRUE, data |-> d] : d \in Documents}
    /\ pc = "load_protection_config"
    /\ argv = NoArgv
    /\ config = Config(Some(<<"t">>), FALSE, None, FALSE)
    /\ file = "unread"
    /\ protection_config = NoProtectionConfig
    /\ gitlab_api = FALSE
    /\ projects = <<>>
    /\ listing = <<>>
    /\ to_visit = <<>>
    /\ visited = {}
    /\ project_idx = 0
    /\ rule_idx = 0
    /\ exitCode = <<>>
    /\ calls = <<>>
    /\ response = NoResponse
    /\ logged = {}
    /\ first_error = 0
    /\ stored = {}
    /\ runs = <<>>

LoadDocument ==
    /\ pc = "load_protection_config"
    /\ document.set
    /\ \E f \in FileStates : LoadStep(f, document.data)

NextLoad == LoadDocument

SpecLoad == InitLoad /\ [][NextLoad]_vars

(***************************************************************************)
(* apply_tag_protection alone: _protect_project has re-fetched the one     *)
(* project and applies the one tag rule of a validated rules file, whose   *)
(* levels range over all of AccessLevel.                                   *)
(***************************************************************************)
\* the rules _validate_protection_rules lets through
ValidatedRules ==
    {Rule(n, Str(m), Str(p)) :
        n \in {Str("v*"), Int7}, m \in AccessLevel, p \in AccessLevel}

InitTag ==
    /\ protection_config \in {ProtectionConfig(<<r>>, <<>>) : r \in ValidatedRules}
    /\ config \in {Config(Some(<<"t">>), FALSE, None, s) : s \in BOOLEAN}
    /\ pc = "apply_tag_protection"
    /\ argv = NoArgv
    /\ file = "parsed"
    /\ document = NoDocument
    /\ gitlab_api = TRUE
    /\ projects = GroupProjects(RootGroup.id)
    /\ listing = <<>>
    /\ to_visit = <<>>
    /\ visited = {}
    /\ project_idx = 1
    /\ rule_idx = 1
    /\ exitCode = <<>>
    /\ calls = <<>>
    /\ response = NoResponse
    /\ logged = {}
    /\ first_error = 0
    /\ stored = {}
    /\ runs = <<>>

NextTag ==
    \/ ApplyTag
    \/ MissionAccomplished

SpecTag == InitTag /\ [][NextTag]_vars

(***************************************************************************)
(* The two handlers of ProtectionManager called on rules that no           *)
(* validation has seen: _protect_project has re-fetched the one project    *)
(* and applies one rule as a tag rule, then the same rule as a branch      *)
(* rule.                                                                   *)
(***************************************************************************)
\* what a key of a rule may hold: a level name, a string that is no level
\* name, the empty string, a value that is no string, or nothing
AnyValues == {Str("maintainer"), Str("bogus"), Str(""), Int7, Absent}

\* the rules a caller may hand to the handlers
AnyRules ==
    {Rule(n, m, p) : n \in {Str("v*"), Int7, Absent}, m \in AnyValues, p \in AnyValues}

InitRule ==
    /\ protection_config \in {ProtectionConfig(<<r>>, <<r>>) : r \in AnyRules}
    /\ config \in {Config(Some(<<"t">>), FALSE, None, s) : s \in BOOLEAN}
    /\ pc = "apply_tag_protection"
    /\ argv = NoArgv
    /\ file = "parsed"
    /\ document = NoDocument
    /\ gitlab_api = TRUE
    /\ projects = GroupProjects(RootGroup.id)
    /\ listing = <<>>
    /\ to_visit = <<>>
    /\ visited = {}
    /\ project_idx = 1
    /\ rule_idx = 1
    /\ exitCode = <<>>
    /\ calls = <<>>
    /\ response = NoResponse
    /\ logged = {}
    /\ first_error = 0
    /\ stored = {}
    /\ runs = <<>>

NextRule ==
    \/ ApplyTag
    \/ ApplyBranch
    \/ MissionAccomplished

SpecRule == InitRule /\ [][NextRule]_vars

(***************************************************************************)
(* _apply_protections run twice against a remote that stores protections:  *)
(* the re-fetch of a project succeeds, a create call for a name the        *)
(* project has no protection of yet stores its payload, and a create call  *)
(* for a name it has one of is refused, with 422 for a tag and 409 for a   *)
(* branch.  The second run has the rules and the projects of the first.    *)
(***************************************************************************)
\* a protection the remote holds
Protection(op, target, payload) == [op |-> op, target |-> target, payload |-> payload]

\* the remote holds a protection of this type and name on the project
Held(op, target, name) ==
    \E p \in stored : p.op = op /\ p.target = target /\ p.payload.name = name

\* the remote's answer to protectedtags.create and protectedbranches.create
StoringRemote(op, target, name) ==
    IF Held(op, target, name)
    THEN Response("GitlabCreateError",
                  IF op = "protectedtags.create" THEN 422 ELSE 409)
    ELSE Ok

\* the remote after a create call: what it answered Ok to, it holds
Store(op, applied, answer) ==
    IF applied.called /\ answer = Ok
    THEN stored \cup {Protection(op, projects[project_idx], applied.payload)}
    ELSE stored

\* _protect_project: self.gitlab_api.projects.get(project.id), answered
ProtectProjectStored ==
    /\ ProtectProject
    /\ response' = Ok

\* _protect_project: apply_tag_protection against the storing remote
ApplyTagStored ==
    /\ pc = "apply_tag_protection"
    /\ LET rule == protection_config.tags[rule_idx]
           answer == StoringRemote("protectedtags.create", projects[project_idx],
                                   RuleGet(rule.name))
           applied == ApplyTagProtection(rule, answer, config.stop_on_error)
       IN  /\ ApplyStep("protectedtags.create", applied, answer,
                        FailedCreate(answer, 422), AfterTag(project_idx, rule_idx))
           /\ stored' = Store("protectedtags.create", applied, answer)
    /\ UNCHANGED runs

\* _protect_project: apply_branch_protection against the storing remote
ApplyBranchStored ==
    /\ pc = "apply_branch_protection"
    /\ LET rule == protection_config.branches[rule_idx]
           answer == StoringRemote("protectedbranches.create",
                                   projects[project_idx], RuleGet(rule.name))
           applied == ApplyBranchProtection(rule, answer, config.stop_on_error)
       IN  /\ ApplyStep("protectedbranches.create", applied, answer,
                        FailedCreate(answer, 409), AfterBranch(project_idx, rule_idx))
           /\ stored' = Store("protectedbranches.create", applied, answer)
    /\ UNCHANGED runs

\* the process is started again on the same rules and the same projects:
\* run() comes to _apply_protections as before
RunAgain ==
    /\ pc = "done"
    /\ runs = <<>>
    /\ runs' = <<[exit |-> exitCode, stored |-> stored]>>
    /\ GoTo(NextProject(0))
    /\ exitCode' = <<>>
    /\ calls' = <<>>
    /\ response' = NoResponse
    /\ logged' = {}
    /\ first_error' = 0
    /\ UNCHANGED <<argv, config, file, document, protection_config, gitlab_api,
                   projects, listing, to_visit, visited, stored>>

\* the rules of the two runs: two with the same name and other levels, one
\* with a name that is no string
RulesOfBothRuns ==
    GoodEntries \cup {Rule(Str("v*"), Str("developer"), Str("maintainer"))}

\* what the remote holds before the first run: nothing, or a protection of
\* the tags v* on the first project
HeldBefore ==
    {{},
     {Protection("protectedtags.create", 1,
                 [name |-> Str("v*"),
                  create_access_level |-> ACCESS_LEVELS["owner"],
                  allowed_to_create |-> <<>>])}}

InitTwice ==
    /\ protection_config \in
          {ProtectionConfig(t, b) : t \in SeqsUpTo(RulesOfBothRuns, MaxRules),
                                    b \in SeqsUpTo(RulesOfBothRuns, MaxRules)}
    /\ config \in {Config(Some(<<"t">>), FALSE, None, s) : s \in BOOLEAN}
    /\ projects \in {<<1>>, <<1, 2>>}
    /\ stored \in HeldBefore
    /\ runs = <<>>
    /\ pc = "protect_project"
    /\ argv = NoArgv
    /\ file = "parsed"
    /\ document = NoDocument
    /\ gitlab_api = TRUE
    /\ listing = <<>>
    /\ to_visit = <<>>
    /\ visited = {}
    /\ project_idx = 1
    /\ rule_idx = 0
    /\ exitCode = <<>>
    /\ calls = <<>>
    /\ response = NoResponse
    /\ logged = {}
    /\ first_error = 0

NextTwice ==
    \/ ProtectProjectStored
    \/ ApplyTagStored
    \/ ApplyBranchStored
    \/ MissionAccomplished
    \/ RunAgain

SpecTwice == InitTwice /\ [][NextTwice]_vars

(***************************************************************************)
(* Properties of a run.                                                    *)
(***************************************************************************)
CreateOps == {"protectedtags.create", "protectedbranches.create"}

\* the positions in calls of the create-protection calls
CreateCalls == {k \in 1..Len(calls) : calls[k].op \in CreateOps}

LastCall == calls[Len(calls)]

Errors(lines) == {m \in lines : m.level = "error"}

\* C1: in a run with dryRun = true no create-tag-protection call and no
\* create-branch-protection call is ever issued, whatever the number of rules
\* and of collected projects.
DryRunIssuesNoCreate == config.dry_run => CreateCalls = {}

\* a dry run that ended with three projects collected and four rules loaded
DryRunWitness ==
    /\ pc = "done"
    /\ config.dry_run
    /\ exitCode = <<0>>
    /\ Len(projects) = 3
    /\ Len(protection_config.tags) = 2
    /\ Len(protection_config.branches) = 2

Pairs ==
    {[op |-> "protectedtags.create", entry |-> e, idx |-> i] :
        e \in 1..Len(projects), i \in 1..Len(protection_config.tags)} \cup
    {[op |-> "protectedbranches.create", entry |-> e, idx |-> i] :
        e \in 1..Len(projects), i \in 1..Len(protection_config.branches)}

\* the rule of a pair
RuleOf(x) ==
    IF x.op = "protectedtags.create"
    THEN protection_config.tags[x.idx]
    ELSE protection_config.branches[x.idx]

\* y comes after x: a later project, or the same project and a later rule
\* (tag rules before branch rules, each list in file order)
Later(x, y) ==
    \/ x.entry < y.entry
    \/ /\ x.entry = y.entry
       /\ \/ x.op = "protectedtags.create" /\ y.op = "protectedbranches.create"
          \/ x.op = y.op /\ x.idx < y.idx

\* the pair a call of calls was issued for
PairOfCall(k) ==
    [op |-> calls[k].op,
     entry |-> CHOOSE e \in 1..Len(projects) : projects[e] = calls[k].target,
     idx |-> calls[k].idx]

\* the create call of pair x was issued after position k of calls
CalledAfter(x, k) ==
    \E j \in (k + 1)..Len(calls) :
        /\ calls[j].op = x.op
        /\ calls[j].target = projects[x.entry]
        /\ calls[j].idx = x.idx

\* C3 as stated: with stopOnError = false, after a create error that is not
\* tolerated every later rule of that project and every rule of every later
\* project still gets its create call.
LaterRulesAllCalled ==
    (pc = "done" /\ ~config.stop_on_error /\ first_error > 0) =>
        \A x \in Pairs :
            Later(PairOfCall(first_error), x) => CalledAfter(x, first_error)

\* the step of the first create error that is not tolerated, stopOnError = false
FirstErrorStep == first_error = 0 /\ first_error' > 0 /\ ~config.stop_on_error

\* C3, amended: with stopOnError = false, a create error that is not tolerated
\* is logged as an error and does not end the run, which goes on with the next
\* rule; and in a run that no later authentication failure and no later project
\* re-fetch failure ends (it returns 0), every later rule whose name is a
\* string, of that project and of every later project, gets its create call.
ErrorDoesNotEndRun ==
    /\ [][FirstErrorStep =>
            /\ Errors(logged') # {}
            /\ exitCode' = <<>>
            /\ pc' # "done"]_vars
    /\ [](  (pc = "done" /\ ~config.stop_on_error /\ first_error > 0
             /\ exitCode = <<0>>) =>
                \A x \in Pairs :
                    (Later(PairOfCall(first_error), x) /\ IsStr(RuleOf(x).name))
                        => CalledAfter(x, first_error))

\* a run that ended with 0 and went on issuing calls after its first error
ErrorDoesNotEndRunWitness ==
    /\ pc = "done"
    /\ ~config.stop_on_error
    /\ exitCode = <<0>>
    /\ first_error > 0
    /\ \E x \in Pairs :
        /\ Later(PairOfCall(first_error), x)
        /\ x.entry > PairOfCall(first_error).entry
        /\ CalledAfter(x, first_error)

\* the step of a create call that the remote answers with the conflict its
\* handler tolerates: 422 for a tag, 409 for a branch
ToleratedStep ==
    /\ Len(calls') = Len(calls) + 1
    /\ LET c == calls'[Len(calls')]
       IN  \/ c.op = "protectedtags.create"
              /\ response' = Response("GitlabCreateError", 422)
           \/ c.op = "protectedbranches.create"
              /\ response' = Response("GitlabCreateError", 409)

\* the step of a create call that succeeds
SucceededStep ==
    /\ Len(calls') = Len(calls) + 1
    /\ calls'[Len(calls')].op \in CreateOps
    /\ response' = Ok

\* what a create step leaves behind of a successful call: no error logged,
\* no exit, no error counted, and the run at the position that follows
LeavesAsSuccess ==
    /\ Errors(logged') = {}
    /\ exitCode' = <<>>
    /\ first_error' = first_error
    /\ IF pc = "apply_tag_protection"
       THEN <<pc', project_idx', rule_idx'>> =
                <<AfterTag(project_idx, rule_idx).pc,
                  AfterTag(project_idx, rule_idx).project_idx,
                  AfterTag(project_idx, rule_idx).rule_idx>>
       ELSE <<pc', project_idx', rule_idx'>> =
                <<AfterBranch(project_idx, rule_idx).pc,
                  AfterBranch(project_idx, rule_idx).project_idx,
                  AfterBranch(project_idx, rule_idx).rule_idx>>

\* C4: a tag create answered 422 and a branch create answered 409 count as
\* already protected: no error is logged, the run goes on also with
\* stopOnError = true, and it goes on exactly as after a successful call, so
\* that its exit code is that of the run in which the call succeeded.
ConflictIsTolerated ==
    [][(ToleratedStep \/ SucceededStep) => LeavesAsSuccess]_vars

\* under stopOnError, the run is past a branch create answered 409
ConflictIsToleratedWitness ==
    /\ config.stop_on_error
    /\ pc \in {"apply_branch_protection", "protect_project", "accomplished"}
    /\ Len(calls) > 0
    /\ LastCall.op = "protectedbranches.create"
    /\ response = Response("GitlabCreateError", 409)

\* the elements of a sequence
SeqSet(s) == {s[i] : i \in 1..Len(s)}

\* the ids of the subgroups the listing names
ListedIds == {listing[i].id : i \in {j \in 1..Len(listing) : listing[j].has_id}}

\* the direct projects of a group
DirectProjects(g) == SeqSet(GroupProjects(g))

\* C5: with no exclude configured, collection yields exactly the union of the
\* direct projects of the root group and of every listed subgroup, and no
\* project twice, also when the listing names a subgroup id more than once.
CollectsUnionOnce ==
    (Collected /\ config.exclude = None) =>
        /\ SeqSet(projects) =
              DirectProjects(RootGroup.id) \cup
              UNION {DirectProjects(g) : g \in ListedIds}
        /\ Cardinality(SeqSet(projects)) = Len(projects)

\* collection has ended on a listing that names one subgroup twice
CollectsUnionOnceWitness ==
    /\ Collected
    /\ config.exclude = None
    /\ Len(listing) = 2
    /\ listing[1] = listing[2]
    /\ listing[1].has_id
    /\ Len(projects) = 2

\* sub occurs in path
Occurs(sub, path) ==
    \E before \in 0..Len(path), after \in 0..Len(path) :
        /\ before + Len(sub) + after = Len(path)
        /\ \A i \in 1..Len(sub) : path[before + i] = sub[i]

\* C6: when the exclude pattern matches the full path of a listed subgroup S2
\* and not that of another listed subgroup S1, the direct projects of S2 are
\* absent from the collected projects and those of S1 and of the root group
\* are present.
ExcludedSubgroupAbsent ==
    (Collected /\ config.exclude.given) =>
        \A s1 \in ListedIds, s2 \in ListedIds :
            (/\ Occurs(config.exclude.value, FullPath(s2))
             /\ ~Occurs(config.exclude.value, FullPath(s1))) =>
                /\ DirectProjects(s2) \cap SeqSet(projects) = {}
                /\ DirectProjects(s1) \subseteq SeqSet(projects)
                /\ DirectProjects(RootGroup.id) \subseteq SeqSet(projects)

\* collection has ended with r/a/c excluded and r/a, listed too, kept
ExcludedSubgroupAbsentWitness ==
    /\ Collected
    /\ config.exclude = Some(<<"c">>)
    /\ ListedIds = {1, 2}
    /\ SeqSet(projects) = {1, 2}

\* an entry of a rule list that the rules file may hold
ValidEntry(e) ==
    /\ e.isMap
    /\ e.name # Absent
    /\ \E l \in AccessLevel : e.merge_access_level = Str(l)
    /\ \E l \in AccessLevel : e.push_access_level = Str(l)

\* the entries under a top-level key, none when the key is missing
Entries(list) == IF list.present THEN list.items ELSE <<>>

ValidDocument(d) ==
    /\ d.isMap
    /\ \A i \in 1..Len(Entries(d.tags)) : ValidEntry(Entries(d.tags)[i])
    /\ \A i \in 1..Len(Entries(d.branches)) : ValidEntry(Entries(d.branches)[i])

\* the first entry that is not valid, tags before branches, each in file order
FirstOffending(d) ==
    LET badTags == {i \in 1..Len(Entries(d.tags)) :
                        ~ValidEntry(Entries(d.tags)[i])}
        badBranches == {i \in 1..Len(Entries(d.branches)) :
                            ~ValidEntry(Entries(d.branches)[i])}
    IN  IF badTags # {}
        THEN [rule_type |-> "tags",
              idx |-> CHOOSE i \in badTags : \A j \in badTags : i <= j]
        ELSE [rule_type |-> "branches",
              idx |-> CHOOSE i \in badBranches : \A j \in badBranches : i <= j]

\* C7: loading a parsed rules file succeeds exactly when the document is a
\* mapping and every entry of tags and of branches (a missing key counting as
\* the empty list) is a mapping with name, merge_access_level and
\* push_access_level, both levels being names of AccessLevel; it then returns
\* the two lists as they are.  Otherwise it fails with the error of the first
\* offending rule and returns no ProtectionConfig at all.
LoadSucceedsExactlyWhenValid ==
    (document.set /\ file = "parsed") =>
        IF ValidDocument(document.data)
        THEN /\ exitCode = <<>>
             /\ protection_config.loaded
             /\ protection_config.tags = Entries(document.data.tags)
             /\ protection_config.branches = Entries(document.data.branches)
        ELSE /\ exitCode = <<11>>
             /\ pc = "done"
             /\ ~protection_config.loaded
             /\ protection_config.tags = <<>>
             /\ protection_config.branches = <<>>
             /\ document.data.isMap =>
                    \A m \in logged :
                        /\ m.level = "error"
                        /\ m.rule_type = FirstOffending(document.data).rule_type
                        /\ m.idx = FirstOffending(document.data).idx

\* a file without the tags key and with two valid branch rules has loaded
LoadSucceedsWitness ==
    /\ document.set
    /\ file = "parsed"
    /\ ~document.data.tags.present
    /\ Len(document.data.branches.items) = 2
    /\ protection_config.loaded
    /\ protection_config.tags = <<>>
    /\ Len(protection_config.branches) = 2

\* C8: a run whose rules file is not an existing file ends with exit code 10,
\* a run whose rules file does not parse or does not validate ends with exit
\* code 11, and in both no remote call of any kind has been issued.
ConfigFailureBeforeAnyCall ==
    /\ file = "not_a_file" =>
        (pc = "done" /\ exitCode = <<10>> /\ calls = <<>>)
    /\ (file = "yaml_error" \/ (file = "parsed" /\ ~protection_config.loaded)) =>
        (pc = "done" /\ exitCode = <<11>> /\ calls = <<>>)

\* a run ended by a rule that does not validate
ConfigFailureWitness ==
    /\ file = "parsed"
    /\ ~protection_config.loaded
    /\ \E m \in logged : m.text = "invalid push_access_level" /\ m.idx = 2
    /\ exitCode = <<11>>

\* an optional string that holds at least one character
NonEmpty(opt) == opt.given /\ Len(opt.value) > 0

AuthFailureOnCreateIsFatal ==
    (/\ Len(calls) > 0
     /\ LastCall.op \in CreateOps
     /\ response.kind = "GitlabAuthenticationError") =>
        (pc = "done" /\ exitCode = <<30>>)

\* without stopOnError, a branch create of the first of several projects has
\* raised the authentication error
AuthFailureWitness ==
    /\ ~config.stop_on_error
    /\ Len(calls) > 0
    /\ LastCall.op = "protectedbranches.create"
    /\ response.kind = "GitlabAuthenticationError"
    /\ exitCode = <<30>>
    /\ Len(projects) > 1
    /\ LastCall.target = projects[1]

\* the stage of run() a position belongs to: 1 load config, 2 authenticate,
\* 3 collect projects, 4 apply protections, 5 done (0: before run())
Stage(p) ==
    CASE p = "parse_arguments" -> 0
      [] p = "load_protection_config" -> 1
      [] p = "initialize_gitlab_api" -> 2
      [] p \in {"collect_projects", "add_root_projects", "list_subgroups",
                "process_subgroups"} -> 3
      [] p \in {"protect_project", "apply_tag_protection",
                "apply_branch_protection", "accomplished"} -> 4
      [] p = "done" -> 5

\* C11: run() goes through load config, authenticate, collect projects, then
\* exactly one of the dry-run report and apply protections, then done.  Every
\* step stays in its stage, enters the next one or ends the run; a stage is
\* entered only when the one before has succeeded (rules loaded, session
\* open, collection ended, no exit code set); the run ends with 0 only by the
\* dry-run report after collection, when dry_run is set, or at the end of the
\* apply stage, which only a run without dry_run enters; a step that sets an
\* exit code ends the run, and nothing follows the end.
StagesInOrder ==
    [][/\ Stage(pc') \in {Stage(pc), Stage(pc) + 1, 5}
       /\ (Stage(pc') # 5 /\ Stage(pc') # Stage(pc)) =>
            /\ exitCode' = <<>>
            /\ Errors(logged') = {}
            /\ Stage(pc') = 2 => protection_config'.loaded
            /\ Stage(pc') = 3 => gitlab_api'
            /\ Stage(pc') = 4 => (Collected /\ ~config.dry_run)
       /\ exitCode' # <<>> => pc' = "done"
       /\ pc' = "done" => exitCode' # <<>>
       /\ (pc' = "done" /\ exitCode' = <<0>>) =>
            \/ Collected /\ config.dry_run
            \/ pc = "accomplished" /\ ~config.dry_run
       /\ pc # "done"]_vars

\* a run that went through every stage, its create calls included, to its end
StagesInOrderWitness ==
    /\ pc = "done"
    /\ exitCode = <<0>>
    /\ ~config.dry_run
    /\ Cardinality(CreateCalls) > 1
    /\ \E k \in 1..Len(calls) : calls[k].op = "subgroups.list"

\* the positions in calls of the project re-fetches
FetchCalls == {k \in 1..Len(calls) : calls[k].op = "projects.get"}

\* the place in projects of the project a call is about
EntryOfCall(k) == CHOOSE e \in 1..Len(projects) : projects[e] = calls[k].target

\* C12: the create calls are issued project by project in the order of
\* projects, within a project the tag rules in file order before the branch
\* rules in file order; the projects are re-fetched in the order of projects,
\* and the last re-fetch before a create call is that of the call's project,
\* so that a project's create calls lie between its re-fetch and the next.
CreateCallsInOrder ==
    /\ \A j \in CreateCalls, k \in CreateCalls :
        j < k => Later(PairOfCall(j), PairOfCall(k))
    /\ \A j \in FetchCalls, k \in FetchCalls :
        j < k => EntryOfCall(j) < EntryOfCall(k)
    /\ \A k \in CreateCalls :
        \E f \in FetchCalls :
            /\ f < k
            /\ calls[f].target = calls[k].target
            /\ \A g \in FetchCalls : g < k => g <= f

\* a run that issued the create calls of two tag rules and two branch rules
\* for three projects
CreateCallsInOrderWitness ==
    /\ pc = "done"
    /\ Len(projects) = 3
    /\ Cardinality(FetchCalls) = 3
    /\ Cardinality(CreateCalls) = 12

\* run() has been called: it has looked for the rules file
RunCalled == file # "unread"

\* C13: run() always returns an exit code of {0, 1, 10, 11, 20, 21, 22, 30}:
\* a run that is over has one of them, whatever was raised in it; and the
\* exception that no stage catches, the one of the project re-fetch, gives 1.
RunReturnsExitCode ==
    /\ (RunCalled /\ pc = "done") =>
        \E code \in {0, 1, 10, 11, 20, 21, 22, 30} : exitCode = <<code>>
    /\ (Len(calls) > 0 /\ LastCall.op = "projects.get" /\ response.kind # "ok") =>
        (pc = "done" /\ exitCode = <<1>>)

\* the re-fetch of the second project has raised, after create calls for the
\* first
RunReturnsExitCodeWitness ==
    /\ pc = "done"
    /\ exitCode = <<1>>
    /\ Len(projects) > 1
    /\ Len(calls) > 0
    /\ LastCall.op = "projects.get"
    /\ LastCall.target = projects[2]
    /\ response = Response("GitlabGetError", 404)
    /\ Cardinality(CreateCalls) > 0

\* the remote calls of the collection stage
CollectOps == {"groups.get", "projects.list", "subgroups.list"}

\* C14: when a call of the collection stage fails (the fetch of the root
\* group, a listing of projects, the fetch of a subgroup, and the listing of
\* subgroups too), the run ends with exit code 20 and has issued no create
\* call, also when projects had been accumulated before the failure.
CollectFailureExits20 ==
    (/\ Len(calls) > 0
     /\ LastCall.op \in CollectOps
     /\ response.kind # "ok") =>
        (pc = "done" /\ exitCode = <<20>> /\ CreateCalls = {})

\* the fetch of the second subgroup has failed with the projects of the root
\* and of the first subgroup accumulated, in a run that is no dry run
CollectFailureWitness ==
    /\ pc = "done"
    /\ exitCode = <<20>>
    /\ ~config.dry_run
    /\ Len(projects) = 2
    /\ Len(calls) > 0
    /\ LastCall = Call("groups.get", 2, 0, NoPayload)
    /\ response.kind # "ok"

\* C15: a failure of the authentication stage ends the run with the session
\* call as the only remote call made: with exit code 30 when the remote
\* answers with an authentication error, with 20 for any other failure.
AuthStageFailureExits ==
    (/\ Len(calls) > 0
     /\ LastCall.op = "auth"
     /\ response.kind # "ok") =>
        /\ pc = "done"
        /\ Len(calls) = 1
        /\ exitCode =
            <<IF response.kind = "GitlabAuthenticationError" THEN 30 ELSE 20>>

\* the remote has refused the token of a run whose rules file had loaded
AuthStageFailureWitness ==
    /\ protection_config.loaded
    /\ calls = <<Call("auth", 0, 0, NoPayload)>>
    /\ response = Response("GitlabAuthenticationError", 401)
    /\ exitCode = <<30>>

\* C16: the payload of every create call of a tag protection is the rule's
\* name, the rank of the rule's push_access_level as create_access_level and
\* an empty allowed_to_create, and nothing else; the rule's
\* merge_access_level has no part in it.
TagPayloadFromPushLevel ==
    \A k \in 1..Len(calls) :
        calls[k].op = "protectedtags.create" =>
            LET rule == protection_config.tags[calls[k].idx]
            IN  calls[k].payload =
                    [name |-> rule.name,
                     create_access_level |->
                         ACCESS_LEVELS[rule.push_access_level.v],
                     allowed_to_create |-> <<>>]

\* the create call of a tag rule with merge level owner and push level guest
TagPayloadWitness ==
    /\ Len(calls) = 1
    /\ calls[1].op = "protectedtags.create"
    /\ protection_config.tags[1].merge_access_level = Str("owner")
    /\ protection_config.tags[1].push_access_level = Str("guest")
    /\ calls[1].payload.create_access_level = 10

\* the create calls issued for a pair
CallsOf(x) ==
    {k \in CreateCalls :
        /\ calls[k].op = x.op
        /\ calls[k].target = projects[x.entry]
        /\ calls[k].idx = x.idx}

\* a run without dry_run and without stop_on_error has come to its end with
\* no authentication failure and no failed re-fetch: it returns 0
AppliedToTheEnd ==
    /\ pc = "done"
    /\ exitCode = <<0>>
    /\ ~config.dry_run
    /\ ~config.stop_on_error

\* every create call is for a pair of the cross product
OnlyPairsCalled == \A k \in CreateCalls : \E x \in Pairs : k \in CallsOf(x)

\* C17 as stated: such a run issues exactly one create call for every pair
\* (project, rule) and none for any other pair.
OneCallForEveryPair ==
    AppliedToTheEnd =>
        /\ \A x \in Pairs : Cardinality(CallsOf(x)) = 1
        /\ OnlyPairsCalled

\* C17, amended: such a run issues exactly one create call for every pair
\* (project, rule) whose rule has a string for its name, no create call for a
\* pair whose rule has a name that is no string, and none for any other pair.
OneCallForEveryNamedPair ==
    AppliedToTheEnd =>
        /\ \A x \in Pairs :
            Cardinality(CallsOf(x)) = IF IsStr(RuleOf(x).name) THEN 1 ELSE 0
        /\ OnlyPairsCalled

\* a run over three projects and four rules, one create call having failed
OneCallWitness ==
    /\ AppliedToTheEnd
    /\ Len(projects) = 3
    /\ Len(protection_config.tags) = 2
    /\ Len(protection_config.branches) = 2
    /\ \A x \in Pairs : IsStr(RuleOf(x).name)
    /\ Cardinality(CreateCalls) = 12
    /\ first_error > 0

\* C18 as stated: a run in dry-run mode ends with exit code 0.
DryRunExitsZero == (config.dry_run /\ pc = "done") => exitCode = <<0>>

\* C18, amended: a run in dry-run mode whose rules file has loaded, whose
\* session is open and whose collection has ended ends with exit code 0,
\* whatever the number of rules: the run has a next step, and its next step
\* is the end of the run with 0.  A run in dry-run mode that ends with
\* another code has failed before the end of collection, with 10, 11, 20 or
\* 30.
DryRunEndsWithSuccess ==
    /\ [][(config.dry_run /\ Collected) =>
            (pc' = "done" /\ exitCode' = <<0>>)]_vars
    /\ []((config.dry_run /\ Collected) => ENABLED <<Next>>_vars)
    /\ []((config.dry_run /\ pc = "done") =>
            \E code \in {0, 10, 11, 20, 30} : exitCode = <<code>>)

\* a dry run with no rule at all has ended with 0
DryRunEndsWitness ==
    /\ config.dry_run
    /\ pc = "done"
    /\ exitCode = <<0>>
    /\ protection_config.loaded
    /\ protection_config.tags = <<>>
    /\ protection_config.branches = <<>>
    /\ Len(projects) > 1

\* the root group's projects have been listed: the run is past that call
RootListed ==
    \/ pc \in {"list_subgroups", "process_subgroups"}
    \/ Stage(pc) = 4
    \/ pc = "done" /\ exitCode = <<0>>

PatternIn(g) ==
    NonEmpty(config.exclude) /\ Occurs(config.exclude.value, FullPath(g))

\* group d lies below group s: its full path is that of s, a slash, and more
Below(d, s) ==
    /\ Len(FullPath(d)) > Len(FullPath(s)) + 1
    /\ \A i \in 1..Len(FullPath(s)) : FullPath(d)[i] = FullPath(s)[i]
    /\ FullPath(d)[Len(FullPath(s)) + 1] = "/"

\* C20 as stated: when a listed subgroup is excluded, a deeper subgroup below
\* it that the listing names too still contributes its direct projects.
DeeperSubgroupStillCollected ==
    Collected =>
        \A s \in ListedIds, d \in ListedIds :
            (PatternIn(s) /\ Below(d, s)) =>
                DirectProjects(d) \subseteq SeqSet(projects)

\* C20, amended: exclusion is decided for every entry of the listing on its
\* own full path: a listed subgroup contributes its direct projects exactly
\* when the exclude string is unset, empty or does not occur in its full
\* path.  The full path of a deeper subgroup contains that of the subgroup
\* above it, so a deeper subgroup below an excluded one is excluded with it
\* and contributes nothing.
ExclusionByOwnPath ==
    Collected =>
        /\ \A g \in ListedIds :
            IF PatternIn(g)
            THEN DirectProjects(g) \cap SeqSet(projects) = {}
            ELSE DirectProjects(g) \subseteq SeqSet(projects)
        /\ \A s \in ListedIds, d \in ListedIds :
            (PatternIn(s) /\ Below(d, s)) =>
                DirectProjects(d) \cap SeqSet(projects) = {}

\* collection has ended with exclude "a" on a listing of r/a and r/a/c: the
\* project of r/a/c is not collected
ExclusionByOwnPathWitness ==
    /\ Collected
    /\ config.exclude = Some(<<"a">>)
    /\ ListedIds = {1, 2}
    /\ Below(2, 1)
    /\ DirectProjects(2) \cap SeqSet(projects) = {}

\* C21: the exclude pattern applies to projects too: no project whose
\* path_with_namespace contains the exclude string is among the collected
\* projects, and none receives a create call.
NoExcludedProject ==
    NonEmpty(config.exclude) =>
        /\ \A i \in 1..Len(projects) :
            ~Occurs(config.exclude.value, PathWithNamespace(projects[i]))
        /\ \A k \in CreateCalls :
            ~Occurs(config.exclude.value, PathWithNamespace(calls[k].target))

\* the step of a create call of op, answered with one of answers
CreateStep(op, answers) ==
    /\ Len(calls') = Len(calls) + 1
    /\ calls'[Len(calls')].op = op
    /\ response' \in answers

\* what the step leaves is what the application leaves in the run that has
\* the other value of stop_on_error: the same lines, the same exit code or
\* the same next position
SameWithFlagFlipped(applied, next) ==
    /\ logged' = applied.logged
    /\ exitCode' = applied.exit
    /\ IF applied.exit = <<>>
       THEN <<pc', project_idx', rule_idx'>> =
                <<next.pc, next.project_idx, next.rule_idx>>
       ELSE pc' = "done"

\* the create steps of both resource types answered with one of answers go
\* the same way with stop_on_error set as with it clear
FlagIrrelevant(tagAnswers, branchAnswers) ==
    /\ CreateStep("protectedtags.create", tagAnswers) =>
        SameWithFlagFlipped(
            ApplyTagProtection(protection_config.tags[rule_idx], response',
                               ~config.stop_on_error),
            AfterTag(project_idx, rule_idx))
    /\ CreateStep("protectedbranches.create", branchAnswers) =>
        SameWithFlagFlipped(
            ApplyBranchProtection(protection_config.branches[rule_idx],
                                  response', ~config.stop_on_error),
            AfterBranch(project_idx, rule_idx))

AuthFailure == Response("GitlabAuthenticationError", 401)

MergeLevelLoggedAsIgnored ==
    [][(/\ pc = "apply_tag_protection"
        /\ protection_config.tags[rule_idx].merge_access_level # Absent
        /\ protection_config.tags[rule_idx].merge_access_level # Str("")) =>
            /\ \E m \in logged' : m.level = "warn"
            /\ Len(calls') = Len(calls) + 1
            /\ calls'[Len(calls')].op = "protectedtags.create"]_vars

\* the fetches in full of subgroup g
Hydrations(g) ==
    {k \in 1..Len(calls) : calls[k].op = "groups.get" /\ calls[k].target = g}

\* the entry at the front of the queue has no id, or the exclude string is
\* set and occurs in its path
FrontNotToHydrate ==
    \/ ~Head(to_visit).has_id
    \/ NonEmpty(config.exclude)
       /\ Occurs(config.exclude.value, Head(to_visit).full_path)

\* C24: the traversal of the subgroup listing ends for every listing, also
\* one with repeated entries.  The queue is the listing and is never added
\* to: every turn of the loop takes the entry at its front, so each entry is
\* taken once, in the order of the listing, and the loop has a next turn
\* until the queue is empty.  A subgroup id is fetched in full at most once.
\* An entry without id, and one whose path is excluded, is passed over
\* without a remote call, without an error and without ending the run.
TraversalTerminates ==
    /\ [][(pc = "list_subgroups" /\ pc' = "process_subgroups") =>
            to_visit' = listing']_vars
    /\ [][(pc = "process_subgroups" /\ to_visit # <<>>) =>
            /\ to_visit' = Tail(to_visit)
            /\ listing' = listing
            /\ FrontNotToHydrate =>
                /\ calls' = calls
                /\ Errors(logged') = {}
                /\ exitCode' = <<>>
                /\ pc' = pc
                /\ projects' = projects]_vars
    /\ [](pc = "process_subgroups" => ENABLED <<Next>>_vars)
    /\ [](\A g \in GroupIds : Cardinality(Hydrations(g)) <= 1)

\* the loop has ended on a listing that names r/a twice and an entry without
\* id: r/a has been fetched once
TraversalWitness ==
    /\ Collected
    /\ config.exclude = None
    /\ listing = <<Stub(1), StubWithoutId>> \/ listing = <<Stub(1), Stub(1)>>
    /\ Cardinality(Hydrations(1)) = 1
    /\ Len(projects) = 2

\* the step logs an error and, with stop_on_error set, ends the run with code
NotTolerated(code) ==
    /\ Errors(logged') # {}
    /\ config.stop_on_error => (exitCode' = <<code>> /\ pc' = "done")

AtFreshEntry ==
    /\ pc = "process_subgroups"
    /\ to_visit # <<>>
    /\ Head(to_visit).has_id
    /\ Head(to_visit).id \notin visited

\* the step passes the entry over as excluded: it logs the exclusion and
\* fetches nothing
SkippedAsExcluded ==
    /\ Msg("warn", "excluding") \in logged'
    /\ calls' = calls
    /\ projects' = projects

\* C26 as stated: a subgroup is skipped by exclusion exactly when an exclude
\* string is configured and occurs in the full path of the subgroup.
SkippedWhenConfiguredAndOccurs ==
    [][AtFreshEntry =>
        (SkippedAsExcluded <=>
            /\ config.exclude.given
            /\ Occurs(config.exclude.value, Head(to_visit).full_path))]_vars

\* C26, amended: a subgroup is skipped by exclusion exactly when an exclude
\* string is configured, is not the empty string, and occurs as a substring
\* of the full path of the subgroup, at any position and character for
\* character.  With no exclude string, and with the empty one, no subgroup
\* is skipped.
SkippedWhenNonEmptyAndOccurs ==
    [][AtFreshEntry =>
        (SkippedAsExcluded <=>
            /\ NonEmpty(config.exclude)
            /\ Occurs(config.exclude.value, Head(to_visit).full_path))]_vars

\* with exclude "c", r/a/c has just been skipped and r/a, before it, was
\* collected
SkippedWitness ==
    /\ pc = "process_subgroups"
    /\ config.exclude = Some(<<"c">>)
    /\ listing = <<Stub(1), Stub(2)>>
    /\ to_visit = <<>>
    /\ Msg("warn", "excluding") \in logged
    /\ projects = <<1, 2>>

\* value names one of the eight access levels
Resolves(value) == value.t = "str" /\ value.v \in AccessLevel

\* the handler returns: an error is logged, no call is issued, the run goes on
ReturnsWithError ==
    /\ Errors(logged') # {}
    /\ calls' = calls
    /\ exitCode' = <<>>
    /\ pc' \notin {pc, "done"}

\* C27: apply_tag_protection on a rule whose push_access_level names no
\* access level, and apply_branch_protection on a rule whose merge or push
\* level names none, log an error and return: no create call is issued and
\* the process is not ended, with stop_on_error set as with it clear.
UnresolvedLevelReturns ==
    [][/\ (/\ pc = "apply_tag_protection"
           /\ ~Resolves(protection_config.tags[rule_idx].push_access_level))
              => ReturnsWithError
       /\ (/\ pc = "apply_branch_protection"
           /\ \/ ~Resolves(protection_config.branches[rule_idx].merge_access_level)
              \/ ~Resolves(protection_config.branches[rule_idx].push_access_level))
              => ReturnsWithError]_vars

\* with stop_on_error set, the rule with merge level "bogus" got its tag
\* create call, and the branch handler has returned on it with an error and
\* without a call of its own
UnresolvedLevelWitness ==
    /\ pc = "accomplished"
    /\ config.stop_on_error
    /\ protection_config.branches[1] =
           Rule(Str("v*"), Str("bogus"), Str("maintainer"))
    /\ Len(calls) = 1
    /\ calls[1].op = "protectedtags.create"
    /\ logged = {Msg("error", "invalid access levels")}
    /\ exitCode = <<>>

\* the projects of the listed subgroups in the order in which the listing
\* first names them, those without id and those excluded left out
RECURSIVE InListingOrder(_, _)
InListingOrder(stubs, seen) ==
    IF stubs = <<>> THEN <<>>
    ELSE LET s == Head(stubs)
         IN  IF ~s.has_id \/ s.id \in seen
             THEN InListingOrder(Tail(stubs), seen)
             ELSE IF PatternIn(s.id)
             THEN InListingOrder(Tail(stubs), seen \cup {s.id})
             ELSE GroupProjects(s.id) \o InListingOrder(Tail(stubs), seen \cup {s.id})

\* s is the beginning of t
IsPrefix(s, t) == Len(s) <= Len(t) /\ SubSeq(t, 1, Len(s)) = s

\* C28: the collected projects only grow, and only at the end, while the
\* groups are traversed; once the traversal has ended they are the projects
\* of the root group followed by those of every hydrated subgroup in the
\* order in which the listing first names the subgroups, and no later step,
\* of the dry-run report or of the apply stage, changes them.
ProjectsAppendOnly ==
    /\ [][IsPrefix(projects, projects')]_vars
    /\ [][(Collected \/ Stage(pc) > 3) => projects' = projects]_vars
    /\ [](Collected =>
            projects = GroupProjects(RootGroup.id) \o InListingOrder(listing, {}))

\* the apply stage has ended after a listing that named r/a/c before r/a:
\* the project of r/a/c comes before that of r/a
ProjectsAppendOnlyWitness ==
    /\ pc = "done"
    /\ exitCode = <<0>>
    /\ ~config.dry_run
    /\ projects = <<1, 3, 2>>
    /\ Len(calls) > 0
    /\ LastCall.op \in CreateOps

\* the last call is the re-fetch of a project, and it has raised
RefetchFailed ==
    /\ Len(calls) > 0
    /\ LastCall.op = "projects.get"
    /\ response.kind # "ok"

\* C29: when the re-fetch of a project in the apply stage fails, the run ends
\* with exit code 1, with stop_on_error set as with it clear and also when
\* the failure is an authentication error; no create call has been issued
\* for that project or a later one, and none is issued any more.
RefetchFailureExits1 ==
    /\ [](RefetchFailed =>
            /\ pc = "done"
            /\ exitCode = <<1>>
            /\ \A k \in CreateCalls :
                EntryOfCall(k) < EntryOfCall(Len(calls)))
    /\ [][pc = "done" => calls' = calls]_vars

\* with stop_on_error set, the re-fetch of the second project has failed
\* with an authentication error after the create calls for the first
RefetchFailureWitness ==
    /\ pc = "done"
    /\ exitCode = <<1>>
    /\ config.stop_on_error
    /\ Len(projects) > 1
    /\ RefetchFailed
    /\ LastCall.target = projects[2]
    /\ response = AuthFailure
    /\ CreateCalls # {}

\* the last call has failed as an authentication failure: the opening of the
\* session has raised, or a call has raised GitlabAuthenticationError
AuthFailed ==
    /\ Len(calls) > 0
    /\ \/ response.kind = "GitlabAuthenticationError"
       \/ LastCall.op = "auth" /\ response.kind # "ok"

\* C30 as stated: with stop_on_error clear, a run that is no dry run and in
\* which no authentication failure and no failure of a project re-fetch
\* occurs returns 0.
NonDryRunExitsZero ==
    (/\ pc = "done"
     /\ RunCalled
     /\ ~config.stop_on_error
     /\ ~config.dry_run
     /\ ~AuthFailed
     /\ ~RefetchFailed) =>
        exitCode = <<0>>

\* C30, amended: with stop_on_error clear, a run that is no dry run and has
\* come to the apply stage (rules loaded, session open, projects collected)
\* returns 0 unless a create call fails with an authentication error (30) or
\* a project re-fetch fails (1): a create call that fails with another error
\* sets no exit code, the apply stage always has a next step, and at its end
\* the run returns 0, also when every create call has failed.
AppliedRunExitsZero ==
    /\ [][(Stage(pc) = 4 /\ ~config.stop_on_error) =>
            /\ first_error' # first_error => exitCode' = <<>>
            /\ pc' = "done" =>
                \/ exitCode' = <<0>> /\ pc = "accomplished"
                \/ /\ exitCode' = <<30>>
                   /\ response' = AuthFailure
                   /\ calls'[Len(calls')].op \in CreateOps
                \/ /\ exitCode' = <<1>>
                   /\ calls'[Len(calls')].op = "projects.get"
                   /\ response'.kind # "ok"]_vars
    /\ [](Stage(pc) = 4 => ENABLED <<Next>>_vars)

\* without stop_on_error the run has returned 0 although its first create
\* call and its last one have failed with errors that are not tolerated
AppliedRunExitsZeroWitness ==
    /\ pc = "done"
    /\ exitCode = <<0>>
    /\ ~config.stop_on_error
    /\ ~config.dry_run
    /\ Cardinality(CreateCalls) > 1
    /\ first_error # 0
    /\ \A k \in CreateCalls : first_error <= k
    /\ LastCall.op = "protectedbranches.create"
    /\ response = Response("GitlabCreateError", 422)

\* C31: the bulk apply is idempotent.  Against a remote that stores
\* protections and refuses a create for a protection it holds with 422 for a
\* tag and 409 for a branch, the second run on the same rules and the same
\* projects changes nothing at the remote at any of its steps: the
\* protections are those the first run left; and it returns 0, with
\* stop_on_error set as with it clear.
SecondRunChangesNothing ==
    Len(runs) = 1 =>
        /\ stored = runs[1].stored
        /\ pc = "done" => exitCode = <<0>>

\* with stop_on_error set, the second run has ended after a branch create
\* answered 409 on the second project; the first run had left protections
\* of both types
SecondRunWitness ==
    /\ pc = "done"
    /\ Len(runs) = 1
    /\ config.stop_on_error
    /\ projects = <<1, 2>>
    /\ Len(calls) > 0
    /\ LastCall.op = "protectedbranches.create"
    /\ LastCall.target = 2
    /\ response = Response("GitlabCreateError", 409)
    /\ Cardinality(stored) = 4
    /\ runs[1].exit = <<0>>

====
